---- MODULE Spec2Model ----
(***************************************************************************)
(* Number assignment and form responses of src/app.py (a Streamlit script  *)
(* over a Supabase store).  Every store call (select / insert / update) is *)
(* one atomic step; a script run is a sequence of such steps, and runs of  *)
(* different browser sessions interleave between any two store calls.      *)
(***************************************************************************)
EXTENDS Integers, Sequences, FiniteSets, TLC

\* ------------------------------------------------------------------ bounds
MaxNumber == 2      \* largest pool size (max_number) of an interleaved execution
MaxSeqNumber == 3   \* largest pool size (max_number) of a one-at-a-time execution
MaxSessions == 2    \* script runs that can be in flight at the same time
MaxRuns == 3        \* participant runs started in an interleaved execution
MaxSeqRuns == 5     \* participant runs started in a one-at-a-time execution
MaxFormRuns == 4    \* script runs started in an execution with form submissions
MaxFormPoolRuns == 1   \* the first runs of such an execution, which may be participant runs

\* Identity tokens (opaque uuid strings in the code) are numbered in the order
\* uuid.uuid4() generates them; every run generates at most one.
Identities == 1..(MaxRuns + MaxSeqRuns + MaxFormRuns)
Sessions == 1..MaxSessions
Null == 0           \* SQL NULL / Python None (no number and no identity is 0)
Exhausted == Null      \* logged outcome of a run that ended with "Todos os numeros foram atribuidos!"

PoolTable == "m1"                 \* table_name of the meeting pool
FormTable == "f1"                 \* table_name of the form
NoTable == "zz"                   \* a ?table= value that names no table and no form

VARIABLES
    tables,     \* the store's per-meeting tables: table_name -> sequence of slot rows
    meetings,   \* the store's meetings_metadata rows, in store order
    clock,      \* the wall clock datetime.now() reads
    sess,       \* per browser session: the position and locals of its script run
    runs,       \* number of script runs started so far
    ids,        \* number of identities uuid.uuid4() has generated so far
    forms,      \* the store's forms_metadata rows
    questions,  \* the store's questions rows
    options,    \* the store's options rows
    responses,  \* the store's responses rows, in insertion order
    log,        \* history: outcome of every participant run that ended with a number or exhausted
    stable,     \* history: identity -> number of PoolTable last shown to it, 0 once the pool was updated since
    submitted,  \* history: the (participant_id, form_id) pairs of the submissions that ran to "Respostas enviadas"
    answerers,  \* history: the (identity, form_id) pairs of the runs that inserted a Response row
    meeting_forms,  \* the store's meeting_forms rows (meeting_id, form_id)
    meeting_seq,    \* the store's identity sequence of meetings_metadata.id: the last id given
    master      \* the master session: the position and locals of its script run

vars == <<tables, meetings, clock, sess, runs, ids, forms, questions, options, responses,
          log, stable, submitted, answerers, meeting_forms, meeting_seq, master>>

\* What the participant mode never writes.
formVars == <<forms, questions, options, responses, submitted, answerers, meeting_forms, meeting_seq, master>>

\* ------------------------------------------------------------- the store
\* One row of a meeting table as create_meeting_table inserts it.
NewSlot(j) == [number |-> j, assigned |-> FALSE, assigned_at |-> Null, user_id |-> Null]

\* The rows of a freshly created pool of n numbers, in insertion order.
NewPool(n) == [j \in 1..n |-> NewSlot(j)]

\* check_table_exists: a select on the table succeeds.
TableExists(t) == t \in DOMAIN tables

\* select("number").eq("user_id", u): the rows that match, in table order.
ExistingRows(t, u) == SelectSeq(tables[t], LAMBDA r : r.user_id = u)

\* The same select without its filter on assigned (not what the code does):
\* every row is returned.
UnassignedRows_NoFilter(t) == tables[t]

\* select("*").eq("assigned", False).
UnassignedRows(t) == SelectSeq(tables[t], LAMBDA r : r.assigned = FALSE)

\* available_numbers = [row["number"] for row in response.data]; random.choice
\* draws any element, so only the set of its elements matters.
AvailableNumbers(rows) == {rows[k].number : k \in DOMAIN rows}

\* A conditional update (not what the code does): a slot that is already
\* assigned is left alone.
UpdateRows_IfUnassigned(rows, n, u, now) ==
    [k \in DOMAIN rows |->
        IF rows[k].number = n /\ ~rows[k].assigned
        THEN [rows[k] EXCEPT !.assigned = TRUE, !.assigned_at = now, !.user_id = u]
        ELSE rows[k]]

\* An update that sets the flag and the identity without the time (not what
\* the code does).
UpdateRows_NoStamp(rows, n, u, now) ==
    [k \in DOMAIN rows |->
        IF rows[k].number = n
        THEN [rows[k] EXCEPT !.assigned = TRUE, !.user_id = u]
        ELSE rows[k]]

\* update({assigned, assigned_at, user_id}).eq("number", n): every row whose
\* number is n is overwritten, whatever its current assigned / user_id.
UpdateRows(rows, n, u, now) ==
    [k \in DOMAIN rows |->
        IF rows[k].number = n
        THEN [rows[k] EXCEPT !.assigned = TRUE, !.assigned_at = now, !.user_id = u]
        ELSE rows[k]]

\* select("*").eq("table_name", t) on meetings_metadata.
MeetingInfo(t) == SelectSeq(meetings, LAMBDA m : m.table_name = t)

\* ---------------------------------------------------------- session state
\* st.session_state and the locals of the session's script run.  prev, full
\* and late are history: what held when the run started.
IdleSession ==
    [pc |-> "idle", uid |-> Null, table |-> "", avail |-> {}, num |-> Null,
     wrote |-> FALSE, prev |-> Null, full |-> FALSE,
     submit |-> FALSE, input |-> <<>>, form_id |-> Null, qs |-> <<>>, mlist |-> <<>>,
     pid |-> "", mtable |-> "", answers |-> <<>>, qidx |-> 0, late |-> {}]

\* A script run has ended (st.stop(), an uncaught exception or the end of the
\* script) or none has begun.
Ended ==
    {"idle", "p_notfound", "p_stopped", "p_shown", "p_exhausted", "p_error",
     "f_notfound", "f_noquestions", "f_nonumber", "f_already", "f_shown",
     "f_incomplete", "f_crash"}

\* A run that ended with outcome pc and nothing a later step reads: the locals
\* of an ended run are dropped.
EndedRun(pc) == [IdleSession EXCEPT !.pc = pc]

\* Browser sessions are interchangeable: a new run takes the first session
\* whose previous run has ended (0 when every session has a run in flight).
FreeSession ==
    IF \E s \in Sessions : sess[s].pc \in Ended
    THEN CHOOSE s \in Sessions :
            /\ sess[s].pc \in Ended
            /\ \A o \in Sessions : sess[o].pc \in Ended => s <= o
    ELSE 0

\* The identities that have been shown a number of the pool (history).
ShownIds ==
    {log[k].id : k \in {j \in DOMAIN log : log[j].table = PoolTable /\ log[j].out # Exhausted}}

\* The numbers identity i has been shown (history).
Shown(i) ==
    {log[k].out : k \in {j \in DOMAIN log :
        log[j].table = PoolTable /\ log[j].id = i /\ log[j].out # Exhausted}}

\* if "user_id" not in st.session_state: the link's token, else a new uuid4.
\* tok = Null is a link without user_id; the new uuid is the next unused identity.
SessionUserId(tok) == IF tok # Null THEN tok ELSE ids + 1

\* The master session before any run: st.session_state and the locals of the
\* master-mode script.  errs are the messages st.error / st.warning rendered.
NoError == ""
NoIndex == -1       \* current_question_index = None (Python list indices start at 0)

IdleMaster ==
    [pc |-> "idle", fn |-> "", meeting_id |-> Null, participant_id |-> "", failsAt |-> 0,
     empty |-> FALSE, err |-> NoError,
     table_name |-> "", max_number |-> 0, selected_forms |-> <<>>, i |-> 0, fidx |-> 0,
     success |-> "", raisedAt |-> "", attempted |-> {}, rolled |-> {},
     selected |-> "", mlist |-> <<>>, flist |-> {}, rlist |-> <<>>,
     draft |-> <<>>, qidx |-> 0, oidx |-> 0, form_id |-> Null, question_id |-> Null,
     option_id |-> Null,
     show_options_form |-> FALSE, current_question_index |-> NoIndex,
     current_options |-> <<>>, graded |-> <<>>]

\* What a new run of the master session starts from: st.session_state (the
\* draft of "Gerenciar Formularios", lines 591-604; draft is its 'questions')
\* outlives the run, the locals do not.
KeepSession ==
    [IdleMaster EXCEPT !.draft = master.draft,
                       !.show_options_form = master.show_options_form,
                       !.current_question_index = master.current_question_index,
                       !.current_options = master.current_options]

\* ------------------------------------------------------------------- Init
\* The form catalog "Criar Formulario" (lines 686-708) has written: one form with
\* a text question and a multiple-choice question with two options, the first
\* marked correct (correct_answer holds str(option id)).
Forms0 == <<[id |-> 1, form_name |-> "F", table_name |-> FormTable]>>

Questions0 ==
    <<[id |-> 1, form_id |-> 1, question_type |-> "text", correct_answer |-> ""],
      [id |-> 2, form_id |-> 1, question_type |-> "multiple_choice", correct_answer |-> "1"]>>

Options0 ==
    <<[id |-> 1, question_id |-> 2, option_text |-> "Red"],
      [id |-> 2, question_id |-> 2, option_text |-> "Blue"]>>

\* A meeting create_meeting_table(max_number = n) has built: its metadata row
\* and n unassigned slots numbered 1..n.  Pools are kept small; the allocator
\* reads and writes rows the same way whatever their count.
InitPool(max) ==
    /\ \E n \in 1..max :
        /\ tables = (PoolTable :> NewPool(n))
        /\ meetings = <<[id |-> 1, table_name |-> PoolTable, max_number |-> n]>>
    /\ clock = 1
    /\ sess = [s \in Sessions |-> IdleSession]
    /\ runs = 0
    /\ ids = 0
    /\ forms = Forms0 /\ questions = Questions0 /\ options = Options0
    /\ responses = <<>>
    /\ log = <<>>
    /\ stable = [i \in Identities |-> Null]
    /\ submitted = {}
    /\ answerers = {}
    /\ meeting_forms = <<>>
    /\ meeting_seq = 1
    /\ master = IdleMaster

Init == InitPool(MaxNumber)

InitSeq == InitPool(MaxSeqNumber)

\* ------------------------------------------------- participant mode (194-266)
\* A browser opens ?mode=participant&table=t[&user_id=tok] in a fresh session:
\* lines 183-192 set the session identity.  cap bounds the runs of the execution.
ParticipantOpen(s, t, tok, cap) ==
    /\ s = FreeSession
    /\ runs < cap
    /\ LET u == SessionUserId(tok) IN
        /\ sess' = [sess EXCEPT ![s] =
                [IdleSession EXCEPT
                    !.pc = "p_check", !.uid = u, !.table = t,
                    !.prev = IF t = PoolTable THEN stable[u] ELSE Null,
                    !.full = /\ TableExists(t)
                             /\ Cardinality(ShownIds) >= Len(tables[t])
                             /\ tok = Null]]
        /\ ids' = IF tok = Null THEN ids + 1 ELSE ids
    /\ runs' = runs + 1
    /\ UNCHANGED <<tables, meetings, clock, log, stable, formVars>>

\* Lines 201-203: check_table_exists; a failed select reads as "does not exist".
CheckTable(s) ==
    /\ sess[s].pc = "p_check"
    /\ \/ sess' = [sess EXCEPT ![s] =
                IF TableExists(sess[s].table) THEN [@ EXCEPT !.pc = "p_meta"]
                ELSE EndedRun("p_notfound")]
       \/ sess' = [sess EXCEPT ![s] = EndedRun("p_notfound")]
    /\ UNCHANGED <<tables, meetings, clock, runs, ids, log, stable, formVars>>

\* Lines 205-212: the meeting's metadata row; meeting_info.data[0] raises on an
\* empty result and the handler stops the run, as it does when the select fails.
ReadMeeting(s) ==
    /\ sess[s].pc = "p_meta"
    /\ \/ sess' = [sess EXCEPT ![s] =
                IF MeetingInfo(sess[s].table) # <<>> THEN [@ EXCEPT !.pc = "p_existing"]
                ELSE EndedRun("p_stopped")]
       \/ sess' = [sess EXCEPT ![s] = EndedRun("p_stopped")]
    /\ UNCHANGED <<tables, meetings, clock, runs, ids, log, stable, formVars>>

\* Lines 221-223: the slot already bound to the session identity, if any; its
\* number is displayed (lines 244-249).  The select has no order, so data[0]
\* is any of the matching rows.
ReadExisting(s) ==
    /\ sess[s].pc = "p_existing"
    /\ TableExists(sess[s].table)
    /\ LET existing == ExistingRows(sess[s].table, sess[s].uid) IN
        IF existing # <<>>
        THEN \E r \in DOMAIN existing :
             /\ sess' = [sess EXCEPT ![s].pc = "p_shown", ![s].num = existing[r].number]
             /\ log' = Append(log, [table |-> sess[s].table, id |-> sess[s].uid, out |-> existing[r].number, wrote |-> FALSE])
             /\ stable' = IF sess[s].table = PoolTable
                          THEN [stable EXCEPT ![sess[s].uid] = existing[r].number]
                          ELSE stable
        ELSE /\ sess' = [sess EXCEPT ![s].pc = "p_unassigned"]
             /\ UNCHANGED <<log, stable>>
    /\ UNCHANGED <<tables, meetings, clock, runs, ids, formVars>>

\* Lines 226-229 and 237-242: the unassigned slots; none left ends the run with
\* "Todos os numeros foram atribuidos!".
ReadUnassigned(s) ==
    /\ sess[s].pc = "p_unassigned"
    /\ TableExists(sess[s].table)
    /\ LET response == UnassignedRows(sess[s].table) IN
        IF response # <<>>
        THEN /\ sess' = [sess EXCEPT ![s].pc = "p_update", ![s].avail = AvailableNumbers(response)]
             /\ UNCHANGED log
        ELSE /\ sess' = [sess EXCEPT ![s].pc = "p_exhausted"]
             /\ log' = Append(log, [table |-> sess[s].table, id |-> sess[s].uid, out |-> Exhausted, wrote |-> FALSE])
    /\ UNCHANGED <<tables, meetings, clock, runs, ids, stable, formVars>>

\* Lines 230-236 and 244-249: random.choice, the update filtered by number only,
\* then the number is displayed.
AssignNumber(s) ==
    /\ sess[s].pc = "p_update"
    /\ TableExists(sess[s].table)
    /\ \E n \in sess[s].avail :
        /\ tables' = [tables EXCEPT ![sess[s].table] = UpdateRows(@, n, sess[s].uid, clock)]
        /\ sess' = [o \in Sessions |->
                IF o = s
                THEN [sess[s] EXCEPT !.pc = "p_shown", !.num = n, !.wrote = TRUE, !.avail = {}]
                ELSE [sess[o] EXCEPT !.prev = IF sess[s].table = PoolTable THEN Null ELSE @]]
        /\ log' = Append(log, [table |-> sess[s].table, id |-> sess[s].uid, out |-> n, wrote |-> TRUE])
        /\ stable' = IF sess[s].table = PoolTable
                     THEN [i \in Identities |-> IF i = sess[s].uid THEN n ELSE Null]
                     ELSE stable
    /\ clock' = clock + 1
    /\ UNCHANGED <<meetings, runs, ids, formVars>>

\* Lines 264-266: a store call of the try block raises (the store fails, or the
\* table was dropped since the run checked it); the error is rendered and the
\* run stops.  The failed call changed nothing.
ParticipantStoreError(s) ==
    /\ sess[s].pc \in {"p_existing", "p_unassigned", "p_update"}
    /\ sess' = [sess EXCEPT ![s] = EndedRun("p_error")]
    /\ UNCHANGED <<tables, meetings, clock, runs, ids, log, stable, formVars>>

ParticipantStep(s) ==
    \/ CheckTable(s)
    \/ ReadMeeting(s)
    \/ ReadExisting(s)
    \/ ReadUnassigned(s)
    \/ AssignNumber(s)
    \/ ParticipantStoreError(s)

\* A link carries the token of an identity generated before, or none.
Tokens == 0..ids

\* Runs of different sessions interleave freely.
Next ==
    \E s \in Sessions :
        \/ \E t \in {PoolTable, NoTable}, tok \in Tokens : ParticipantOpen(s, t, tok, MaxRuns)
        \/ ParticipantStep(s)

Spec == Init /\ [][Next]_vars

\* Runs one at a time: a run starts only when no other run is in flight.
Quiet == \A s \in Sessions : sess[s].pc \in Ended

NextSeq ==
    \E s \in Sessions :
        \/ \E t \in {PoolTable, NoTable}, tok \in Tokens : Quiet /\ ParticipantOpen(s, t, tok, MaxSeqRuns)
        \/ ParticipantStep(s)

SpecSeq == InitSeq /\ [][NextSeq]_vars

\* --------------------------------------------- participant_form mode (279-356)
\* str() of a small non-negative integer.
Str(n) ==
    <<"0", "1", "2", "3", "4", "5", "6", "7", "8", "9", "10", "11", "12", "13", "14", "15",
      "16", "17", "18", "19", "20", "21", "22", "23", "24", "25", "26", "27", "28", "29">>[n + 1]

\* A Python value of the responses dict, by what the handler does with it:
\* its truth value (all(responses.values())) and its str() (the answer column).
PyNone == [truthy |-> FALSE, str |-> "None"]
\* A text value that counts as an answer even when empty (not what the code does).
PyText_AlwaysTruthy(x) == [truthy |-> TRUE, str |-> x]

PyText(x) == [truthy |-> x # "", str |-> x]
PyInt(n) == [truthy |-> n # 0, str |-> Str(n)]

NoChoice == "<none>"            \* st.radio(index=None) with nothing selected
TextInputs == {"", "hello"}     \* what a participant types into a text_input

\* select("*").eq("table_name", t) on forms_metadata.
FormInfo(t) == SelectSeq(forms, LAMBDA f : f.table_name = t)

\* select("*").eq("form_id", fid) on questions.
QuestionsOf(fid) == SelectSeq(questions, LAMBDA q : q.form_id = fid)

\* select("*").eq("question_id", qid) on options.
OptionsOf(qid) == SelectSeq(options, LAMBDA o : o.question_id = qid)

\* get_answered_forms when the select succeeds: the form_ids of the rows of pid.
AnsweredForms(pid) ==
    {responses[k].form_id : k \in {j \in DOMAIN responses : responses[j].participant_id = pid}}

\* The catalog accessors (lines 105-143).  Each returns what its caller gets
\* (ret) and the message st.error rendered (err, NoError when none); fails
\* tells whether the store call raised.
get_available_meetings(fails) ==
    IF fails THEN [ret |-> <<>>, err |-> "Erro ao recuperar reunioes"]
    ELSE [ret |-> meetings, err |-> NoError]

get_available_forms(fails) ==
    IF fails THEN [ret |-> <<>>, err |-> "Erro ao recuperar formularios"]
    ELSE [ret |-> forms, err |-> NoError]

\* form_ids of the link rows of the meeting, then the forms whose id is among
\* them; failsAt is the query that raises (1 the links, 2 the forms, 0 none).
get_forms_for_meeting(meeting_id, failsAt) ==
    LET form_ids == {meeting_forms[k].form_id :
                        k \in {j \in DOMAIN meeting_forms : meeting_forms[j].meeting_id = meeting_id}}
    IN  IF failsAt = 1 \/ (failsAt = 2 /\ form_ids # {})
        THEN [ret |-> <<>>, err |-> "Erro ao recuperar formularios da reuniao"]
        ELSE [ret |-> SelectSeq(forms, LAMBDA f : f.id \in form_ids), err |-> NoError]

\* get_answered_forms that renders nothing when its select fails (not what the
\* code does).
get_answered_forms_Silent(participant_id, fails) ==
    IF fails THEN [ret |-> {}, err |-> NoError]
    ELSE [ret |-> AnsweredForms(participant_id), err |-> NoError]

get_answered_forms(participant_id, fails) ==
    IF fails THEN [ret |-> {}, err |-> "Erro ao verificar formularios respondidos"]
    ELSE [ret |-> AnsweredForms(participant_id), err |-> NoError]

\* option_ids[option_texts.index(selected_option)]: the id of the first option
\* with the selected text.
OptionIdOf(opts, text) ==
    opts[CHOOSE k \in DOMAIN opts :
            /\ opts[k].option_text = text
            /\ \A j \in DOMAIN opts : opts[j].option_text = text => k <= j].id

\* Lines 320-333: the responses dict, as (question_id, value) in question
\* order; input holds the widget state of the session, absent before the
\* form was first displayed.
BuildResponses(qs, input) ==
    [k \in DOMAIN qs |->
        LET q == qs[k]
            raw == IF q.id \in DOMAIN input
                   THEN input[q.id]
                   ELSE IF q.question_type = "text" THEN "" ELSE NoChoice
        IN  [question_id |-> q.id,
             value |-> IF q.question_type = "text" THEN PyText(raw)
                       ELSE IF raw = NoChoice THEN PyNone
                       ELSE PyInt(OptionIdOf(OptionsOf(q.id), raw))]]

\* What a participant can enter into the displayed form before pressing Enviar.
WidgetInputs(qs) ==
    LET qids == {qs[k].id : k \in DOMAIN qs}
        texts == TextInputs \cup {NoChoice} \cup {options[k].option_text : k \in DOMAIN options}
        allowed(q) == IF q.question_type = "text" THEN TextInputs
                      ELSE {NoChoice} \cup {OptionsOf(q.id)[k].option_text : k \in DOMAIN OptionsOf(q.id)}
    IN  {f \in [qids -> texts] : \A k \in DOMAIN qs : f[qs[k].id] \in allowed(qs[k])}

\* What the participant_form mode never writes.
poolVars == <<tables, meetings, clock, ids, forms, questions, options, log, stable,
              meeting_forms, meeting_seq, master>>

\* A browser opens ?mode=participant_form&table=t[&user_id=tok] in a fresh session.
FormOpen(s, t, tok, cap) ==
    /\ s = FreeSession
    /\ runs < cap
    /\ sess' = [sess EXCEPT ![s] =
            [IdleSession EXCEPT !.pc = "f_form", !.uid = SessionUserId(tok), !.table = t,
                                !.late = submitted]]
    /\ ids' = IF tok = Null THEN ids + 1 ELSE ids
    /\ runs' = runs + 1
    /\ UNCHANGED <<tables, meetings, clock, forms, questions, options, log, stable,
                   responses, submitted, answerers, meeting_forms, meeting_seq, master>>

\* The participant fills the displayed form and presses Enviar: the script is
\* run again in the same session, with the widget state inp.
FormSubmit(s, inp, cap) ==
    /\ sess[s].pc \in {"f_shown", "f_incomplete"}
    /\ runs < cap
    /\ inp \in WidgetInputs(sess[s].qs)
    /\ sess' = [sess EXCEPT ![s] =
            [IdleSession EXCEPT !.pc = "f_form", !.uid = sess[s].uid, !.table = sess[s].table,
                                !.submit = TRUE, !.input = inp, !.late = submitted]]
    /\ runs' = runs + 1
    /\ UNCHANGED <<poolVars, responses, submitted, answerers>>

\* Lines 286-292: the form the link names.
ReadForm(s) ==
    /\ sess[s].pc = "f_form"
    /\ LET form_info == FormInfo(sess[s].table) IN
        sess' = IF form_info = <<>>
                THEN [sess EXCEPT ![s] = EndedRun("f_notfound")]
                ELSE [sess EXCEPT ![s].pc = "f_questions", ![s].form_id = form_info[1].id]
    /\ UNCHANGED <<poolVars, runs, responses, submitted, answerers>>

\* Lines 294-297: the questions of the form.
ReadQuestions(s) ==
    /\ sess[s].pc = "f_questions"
    /\ LET qs == QuestionsOf(sess[s].form_id) IN
        sess' = IF qs = <<>>
                THEN [sess EXCEPT ![s] = EndedRun("f_noquestions")]
                ELSE [sess EXCEPT ![s].pc = "f_meetings", ![s].qs = qs]
    /\ UNCHANGED <<poolVars, runs, responses, submitted, answerers>>

\* Line 302 and 309-311: get_available_meetings, which returns [] when its
\* select fails; with no meeting to scan no number is found.
ReadMeetings(s) ==
    /\ sess[s].pc = "f_meetings"
    /\ \E fails \in BOOLEAN :
        LET available == get_available_meetings(fails).ret IN
        sess' = IF available = <<>>
                THEN [sess EXCEPT ![s] = EndedRun("f_nonumber")]
                ELSE [sess EXCEPT ![s].pc = "f_lookup",
                                  ![s].mlist = [k \in DOMAIN available |-> available[k].table_name]]
    /\ UNCHANGED <<poolVars, runs, responses, submitted, answerers>>

\* Lines 302-311: one pass of the loop over the meetings: the slot of the next
\* pool bound to the session identity; the first pool with one gives the
\* participant_id (data[0] of an unordered select: any matching row), none in
\* any pool refuses the run.
LookupNumber(s) ==
    /\ sess[s].pc = "f_lookup"
    /\ TableExists(Head(sess[s].mlist))
    /\ LET assigned == ExistingRows(Head(sess[s].mlist), sess[s].uid) IN
        IF assigned # <<>>
        THEN \E r \in DOMAIN assigned :
                sess' = [sess EXCEPT ![s].pc = "f_answered", ![s].pid = Str(assigned[r].number),
                                     ![s].mtable = Head(sess[s].mlist), ![s].mlist = <<>>]
        ELSE sess' = IF Tail(sess[s].mlist) = <<>>
                     THEN [sess EXCEPT ![s] = EndedRun("f_nonumber")]
                     ELSE [sess EXCEPT ![s].mlist = Tail(@)]
    /\ UNCHANGED <<poolVars, runs, responses, submitted, answerers>>

\* Lines 313-317 with get_answered_forms (136-143), which returns set() when
\* its select fails.
CheckAnswered(s) ==
    /\ sess[s].pc = "f_answered"
    /\ \E fails \in BOOLEAN :
        LET answered_forms == get_answered_forms(sess[s].pid, fails).ret IN
        sess' = [sess EXCEPT ![s] =
                    IF sess[s].form_id \in answered_forms THEN EndedRun("f_already")
                    ELSE [@ EXCEPT !.pc = "f_render"]]
    /\ UNCHANGED <<poolVars, runs, responses, submitted, answerers>>

\* Lines 319-337 and 355-356: the form is built (the options selects of one run
\* are taken together: no action writes options while a form is open); a run
\* without Enviar pressed ends with the form displayed, a run with it goes on
\* to the inserts when every value is truthy.
RenderForm(s) ==
    /\ sess[s].pc = "f_render"
    /\ LET resp == BuildResponses(sess[s].qs, sess[s].input) IN
        sess' = IF ~sess[s].submit
                THEN [sess EXCEPT ![s].pc = "f_shown"]
                ELSE IF \A k \in DOMAIN resp : resp[k].value.truthy
                THEN [sess EXCEPT ![s].pc = "f_insert", ![s].answers = resp, ![s].qidx = 1]
                ELSE [sess EXCEPT ![s].pc = "f_incomplete"]
    /\ UNCHANGED <<poolVars, runs, responses, submitted, answerers>>

\* A row that loses the question (not what the code does): question_id holds
\* the form_id.
ResponseRow_NoQuestion(fid, pid, item) ==
    [form_id |-> fid, participant_id |-> pid, question_id |-> fid,
     answer |-> item.value.str]

\* The row lines 339-344 build for one item of the responses dict.
ResponseRow(fid, pid, item) ==
    [form_id |-> fid, participant_id |-> pid, question_id |-> item.question_id,
     answer |-> item.value.str]

\* Lines 338-354: one insert of the loop; after the last one the success
\* message is shown and st.rerun() starts the participant mode on the meeting
\* whose number was found, in the same session.
InsertResponse(s) ==
    /\ sess[s].pc = "f_insert"
    /\ responses' = Append(responses,
            ResponseRow(sess[s].form_id, sess[s].pid, sess[s].answers[sess[s].qidx]))
    /\ answerers' = answerers \cup {<<sess[s].uid, sess[s].form_id>>}
    /\ IF sess[s].qidx < Len(sess[s].answers)
       THEN /\ sess' = [sess EXCEPT ![s].qidx = @ + 1]
            /\ UNCHANGED submitted
       ELSE /\ sess' = [sess EXCEPT ![s] =
                    [IdleSession EXCEPT !.pc = "p_check", !.uid = sess[s].uid,
                        !.table = sess[s].mtable,
                        !.prev = IF sess[s].mtable = PoolTable THEN stable[sess[s].uid] ELSE Null]]
            /\ submitted' = submitted \cup {<<sess[s].pid, sess[s].form_id>>}
    /\ UNCHANGED <<poolVars, runs>>

\* A store call outside any try block raises (lines 286, 294, 303, 326, 345):
\* the exception ends the run; the failed call changed nothing.
FormStoreCrash(s) ==
    /\ sess[s].pc \in {"f_form", "f_questions", "f_lookup", "f_render", "f_insert"}
    /\ sess' = [sess EXCEPT ![s] = EndedRun("f_crash")]
    /\ UNCHANGED <<poolVars, runs, responses, submitted, answerers>>

FormStep(s) ==
    \/ ReadForm(s)
    \/ ReadQuestions(s)
    \/ ReadMeetings(s)
    \/ LookupNumber(s)
    \/ CheckAnswered(s)
    \/ RenderForm(s)
    \/ InsertResponse(s)
    \/ FormStoreCrash(s)

\* Two meetings whose pools each have their number 1 assigned, to identities 1
\* and 2: the state after two participant runs.
SecondPool == "m2"

AssignedPool(n, u, at) == UpdateRows(NewPool(n), 1, u, at)

InitForm ==
    /\ tables = (PoolTable :> AssignedPool(MaxNumber, 1, 1)) @@ (SecondPool :> AssignedPool(MaxNumber, 2, 2))
    /\ meetings = <<[id |-> 1, table_name |-> PoolTable, max_number |-> MaxNumber],
                    [id |-> 2, table_name |-> SecondPool, max_number |-> MaxNumber]>>
    /\ clock = 3
    /\ sess = [s \in Sessions |-> IdleSession]
    /\ runs = 0
    /\ ids = 2
    /\ forms = Forms0 /\ questions = Questions0 /\ options = Options0
    /\ responses = <<>>
    /\ log = <<[table |-> PoolTable, id |-> 1, out |-> 1, wrote |-> TRUE],
               [table |-> SecondPool, id |-> 2, out |-> 1, wrote |-> TRUE]>>
    /\ stable = [i \in Identities |-> IF i = 1 THEN 1 ELSE Null]
    /\ submitted = {}
    /\ answerers = {}
    /\ meeting_forms = <<>>
    /\ meeting_seq = 2
    /\ master = IdleMaster

\* Form runs and participant runs of different sessions interleave freely.
NextForm ==
    \E s \in Sessions :
        \/ \E t \in {FormTable, NoTable}, tok \in Tokens : FormOpen(s, t, tok, MaxFormRuns)
        \/ \E inp \in WidgetInputs(sess[s].qs) : FormSubmit(s, inp, MaxFormRuns)
        \/ FormStep(s)
        \/ \E t \in {PoolTable, SecondPool}, tok \in Tokens : ParticipantOpen(s, t, tok, MaxFormPoolRuns)
        \/ ParticipantStep(s)

SpecForm == InitForm /\ [][NextForm]_vars

\* Form runs alone, on the store InitForm: views and submissions of
\* participant_form mode interleave, no number is assigned meanwhile.
MaxSubmitRuns == 3  \* script runs started in an execution of form runs

NextSubmit ==
    \E s \in Sessions :
        \/ \E t \in {FormTable, NoTable}, tok \in Tokens : FormOpen(s, t, tok, MaxSubmitRuns)
        \/ \E inp \in WidgetInputs(sess[s].qs) : FormSubmit(s, inp, MaxSubmitRuns)
        \/ FormStep(s)

SpecSubmit == InitForm /\ [][NextSubmit]_vars

\* ------------------------------------------------ the catalog accessors (105-143)
\* Stores the accessors can meet: no, one or two meetings; no form or the
\* form; link rows of the form to meetings (a link outlives its meeting:
\* the rollback of create_meeting_table leaves it); answers of participant "1".
MeetingRow(k) == [id |-> k, table_name |-> IF k = 1 THEN PoolTable ELSE SecondPool, max_number |-> 1]

LinkRow(m, f) == [meeting_id |-> m, form_id |-> f]

AnswerRow(q) == [form_id |-> 1, participant_id |-> "1", question_id |-> q, answer |-> "hello"]

InitCatalog ==
    /\ meetings \in {<<>>, <<MeetingRow(1)>>, <<MeetingRow(1), MeetingRow(2)>>}
    /\ tables = [t \in {meetings[k].table_name : k \in DOMAIN meetings} |-> NewPool(1)]
    /\ forms \in {<<>>, Forms0}
    /\ questions = IF forms = <<>> THEN <<>> ELSE Questions0
    /\ options = IF forms = <<>> THEN <<>> ELSE Options0
    /\ meeting_forms \in IF forms = <<>> THEN {<<>>}
                         ELSE {<<>>, <<LinkRow(1, 1)>>, <<LinkRow(2, 1)>>, <<LinkRow(1, 1), LinkRow(2, 1)>>}
    /\ responses \in IF forms = <<>> THEN {<<>>}
                     ELSE {<<>>, <<AnswerRow(1)>>, <<AnswerRow(1), AnswerRow(2)>>}
    /\ clock = 1
    /\ sess = [s \in Sessions |-> IdleSession]
    /\ runs = 0
    /\ ids = 0
    /\ log = <<>>
    /\ stable = [i \in Identities |-> Null]
    /\ submitted = {}
    /\ answerers = {}
    /\ meeting_seq = 2
    /\ master = IdleMaster

\* What a call left: the accessor, its argument, the query that raised (0:
\* none), whether the return value is empty, and the message rendered.
Called(fn, meeting_id, participant_id, failsAt, empty, err) ==
    [IdleMaster EXCEPT !.pc = "called", !.fn = fn, !.meeting_id = meeting_id,
                       !.participant_id = participant_id, !.failsAt = failsAt,
                       !.empty = empty, !.err = err]

storeVars == <<tables, meetings, clock, sess, runs, ids, forms, questions, options, responses,
               log, stable, submitted, answerers, meeting_forms, meeting_seq>>

\* Lines 302, 407, 444, 468, 767: a call of get_available_meetings.
CallAvailableMeetings(fails) ==
    /\ LET r == get_available_meetings(fails) IN
        master' = Called("get_available_meetings", Null, "", IF fails THEN 1 ELSE 0,
                         r.ret = <<>>, r.err)
    /\ UNCHANGED storeVars

\* Lines 379, 726, 749: a call of get_available_forms.
CallAvailableForms(fails) ==
    /\ LET r == get_available_forms(fails) IN
        master' = Called("get_available_forms", Null, "", IF fails THEN 1 ELSE 0,
                         r.ret = <<>>, r.err)
    /\ UNCHANGED storeVars

\* Lines 252, 536: a call of get_forms_for_meeting.
CallFormsForMeeting(meeting_id, failsAt) ==
    /\ LET r == get_forms_for_meeting(meeting_id, failsAt) IN
        master' = Called("get_forms_for_meeting", meeting_id, "", failsAt, r.ret = <<>>, r.err)
    /\ UNCHANGED storeVars

\* Lines 254, 314: a call of get_answered_forms.
CallAnsweredForms(participant_id, fails) ==
    /\ LET r == get_answered_forms(participant_id, fails) IN
        master' = Called("get_answered_forms", Null, participant_id, IF fails THEN 1 ELSE 0,
                         r.ret = {}, r.err)
    /\ UNCHANGED storeVars

NextCatalog ==
    \/ \E fails \in BOOLEAN : CallAvailableMeetings(fails)
    \/ \E fails \in BOOLEAN : CallAvailableForms(fails)
    \/ \E meeting_id \in 1..3, failsAt \in 0..2 : CallFormsForMeeting(meeting_id, failsAt)
    \/ \E participant_id \in {"1", "2"}, fails \in BOOLEAN : CallAnsweredForms(participant_id, fails)

SpecCatalog == InitCatalog /\ [][NextCatalog]_vars

\* ------------------------------------- "Criar Reuniao" (386-402, 55-103)
batch_size == 100   \* line 81

MaxBatches == 1     \* largest number of full batches of a created pool
MaxCreateRuns == 2  \* "Criar Reuniao" submissions of an execution

NewTable == "m3"    \* a table_name no table has yet

\* The max_number values tried: the small ones, and one below, at and one above
\* every multiple of batch_size up to MaxBatches batches.
CreateSizes ==
    (1..MaxNumber) \cup {k * batch_size + d : k \in 1..MaxBatches, d \in {-1, 0, 1}}

\* The pages of the master session on which no run is in flight.
MasterEnded ==
    {"idle", "called", "m_exists", "m_created", "m_failed", "m_crash",
     "s_none", "s_link", "sf_none", "sf_links",
     "st_none", "st_noforms", "st_noanswers", "st_shown", "fc_warning", "fc_created",
     "fa_page"}

\* Batch rows whose numbers run to the end of a full batch whatever
\* max_number is (not what the code does).
BatchRows_NoMin(i, max_number) ==
    [k \in 1..batch_size |-> NewSlot(i + k)]

\* Lines 83-85: the rows of the batch that starts after number i.
BatchRows(i, max_number) ==
    LET end == IF i + batch_size < max_number THEN i + batch_size ELSE max_number
    IN  [k \in 1..(end - i) |-> NewSlot(i + k)]

\* delete().eq("table_name", t) that deletes nothing (not what the code does).
DeleteMetadata_Nothing(rows, t) == rows

\* Line 99: delete().eq("table_name", t) on meetings_metadata.
DeleteMetadata(rows, t) == SelectSeq(rows, LAMBDA m : m.table_name # t)

\* A rollback that keeps the table and resets its slots to unassigned (not
\* what the code does).
DropTable_Unassign(tabs, t) ==
    [x \in DOMAIN tabs |-> IF x = t THEN NewPool(Len(tabs[x])) ELSE tabs[x]]

\* Line 100: DROP TABLE IF EXISTS.
DropTable(tabs, t) == [x \in DOMAIN tabs \ {t} |-> tabs[x]]

\* Lines 386-388: "Criar Reuniao" pressed with a meeting name; table_name is
\* built from the clock's second and the name, selected_forms from the forms
\* listed by get_available_forms.
MeetingSubmit(table_name, max_number, selected_forms, cap) ==
    /\ master.pc \in MasterEnded
    /\ runs < cap
    /\ \A k \in DOMAIN selected_forms : \E f \in DOMAIN forms : forms[f].id = selected_forms[k]
    /\ master' = [KeepSession EXCEPT !.pc = "m_check", !.table_name = table_name,
                                    !.max_number = max_number, !.selected_forms = selected_forms]
    /\ runs' = runs + 1
    /\ UNCHANGED <<tables, meetings, clock, sess, ids, forms, questions, options, responses,
                   log, stable, submitted, answerers, meeting_forms, meeting_seq>>

\* Lines 389-393: check_table_exists, which also answers False when its select
\* fails; an existing name ends the run with "Uma reuniao com esse nome ja
\* existe".
MeetingCheck ==
    /\ master.pc = "m_check"
    /\ \/ master' = IF TableExists(master.table_name)
                    THEN [master EXCEPT !.pc = "m_exists", !.err = "Uma reuniao com esse nome ja existe"]
                    ELSE [master EXCEPT !.pc = "c_meta"]
       \/ master' = [master EXCEPT !.pc = "c_meta"]
    /\ UNCHANGED storeVars

\* Lines 58-64: the metadata row; the store gives it the next id.
CreateMetadata ==
    /\ master.pc = "c_meta"
    /\ meetings' = Append(meetings, [id |-> meeting_seq + 1, table_name |-> master.table_name,
                                     max_number |-> master.max_number])
    /\ meeting_seq' = meeting_seq + 1
    /\ master' = [master EXCEPT !.pc = "c_table", !.meeting_id = meeting_seq + 1]
    /\ UNCHANGED <<tables, clock, sess, runs, ids, forms, questions, options, responses,
                   log, stable, submitted, answerers, meeting_forms>>

\* Lines 66-75: CREATE TABLE, which the store refuses for a name in use (the
\* step then fails, see CreateStepFails).
CreateTable ==
    /\ master.pc = "c_table"
    /\ ~TableExists(master.table_name)
    /\ tables' = [x \in DOMAIN tables \cup {master.table_name} |->
                    IF x = master.table_name THEN <<>> ELSE tables[x]]
    /\ master' = [master EXCEPT !.pc = "c_exists"]
    /\ UNCHANGED <<meetings, clock, sess, runs, ids, forms, questions, options, responses,
                   log, stable, submitted, answerers, meeting_forms, meeting_seq>>

\* Lines 77-79: the table answers a select (otherwise the step raises, see
\* CreateStepFails); the batch loop starts at i = 0.
CheckCreated ==
    /\ master.pc = "c_exists"
    /\ TableExists(master.table_name)
    /\ master' = [master EXCEPT !.pc = "c_batch", !.i = 0]
    /\ UNCHANGED storeVars

\* The position after the slot batches when the form links are skipped (not
\* what the code does): return True.
AfterBatches_NoLinks == "m_created"

\* The position after the slot batches: the form links, if any were selected,
\* else return True.
AfterBatches == IF master.selected_forms # <<>> THEN "c_forms" ELSE "m_created"

\* Lines 82-86: one pass of the batch loop, for i in range(0, max_number,
\* batch_size).
InsertBatch ==
    /\ master.pc = "c_batch"
    /\ TableExists(master.table_name)
    /\ tables' = [tables EXCEPT ![master.table_name] = @ \o BatchRows(master.i, master.max_number)]
    /\ master' = IF master.i + batch_size < master.max_number
                 THEN [master EXCEPT !.i = @ + batch_size]
                 ELSE [master EXCEPT !.pc = AfterBatches, !.fidx = 1,
                                     !.success = IF AfterBatches = "m_created" THEN "True" ELSE @]
    /\ UNCHANGED <<meetings, clock, sess, runs, ids, forms, questions, options, responses,
                   log, stable, submitted, answerers, meeting_forms, meeting_seq>>

\* Lines 88-95: one insert of the form links; after the last one, return True.
InsertFormLink ==
    /\ master.pc = "c_forms"
    /\ meeting_forms' = Append(meeting_forms,
            [meeting_id |-> master.meeting_id, form_id |-> master.selected_forms[master.fidx]])
    /\ master' = IF master.fidx < Len(master.selected_forms)
                 THEN [master EXCEPT !.fidx = @ + 1]
                 ELSE [master EXCEPT !.pc = "m_created", !.success = "True"]
    /\ UNCHANGED <<tables, meetings, clock, sess, runs, ids, forms, questions, options, responses,
                   log, stable, submitted, answerers, meeting_seq>>

\* Lines 96-97: a step of the try block raises (a store call fails, the table
\* to create exists already, or the created table does not answer); the error
\* is rendered and the rollback begins.  The failed call changed nothing.
CreateStepFails ==
    /\ master.pc \in {"c_meta", "c_table", "c_exists", "c_batch", "c_forms"}
    /\ master' = [master EXCEPT !.pc = "r_meta", !.raisedAt = master.pc,
                                !.err = "Erro ao criar tabela de reuniao"]
    /\ UNCHANGED storeVars

\* Lines 98-99: the first rollback call, the delete of the metadata rows of
\* the table_name; when it raises, lines 101-103 render the rollback error and
\* return False without the second call.
RollbackMetadata ==
    /\ master.pc = "r_meta"
    /\ \/ /\ meetings' = DeleteMetadata(meetings, master.table_name)
          /\ master' = [master EXCEPT !.pc = "r_drop", !.attempted = @ \cup {"delete"},
                                      !.rolled = @ \cup {"delete"}]
       \/ /\ UNCHANGED meetings
          /\ master' = [master EXCEPT !.pc = "m_failed", !.attempted = @ \cup {"delete"},
                                      !.success = "False", !.err = "Erro no rollback"]
    /\ UNCHANGED <<tables, clock, sess, runs, ids, forms, questions, options, responses,
                   log, stable, submitted, answerers, meeting_forms, meeting_seq>>

\* Lines 100-103: the second rollback call, the drop of the table; return False.
RollbackDrop ==
    /\ master.pc = "r_drop"
    /\ \/ /\ tables' = DropTable(tables, master.table_name)
          /\ master' = [master EXCEPT !.pc = "m_failed", !.attempted = @ \cup {"drop"},
                                      !.rolled = @ \cup {"drop"}, !.success = "False"]
       \/ /\ UNCHANGED tables
          /\ master' = [master EXCEPT !.pc = "m_failed", !.attempted = @ \cup {"drop"},
                                      !.success = "False", !.err = "Erro no rollback"]
    /\ UNCHANGED <<meetings, clock, sess, runs, ids, forms, questions, options, responses,
                   log, stable, submitted, answerers, meeting_forms, meeting_seq>>

CreateStep ==
    \/ MeetingCheck
    \/ CreateMetadata
    \/ CreateTable
    \/ CheckCreated
    \/ InsertBatch
    \/ InsertFormLink
    \/ CreateStepFails
    \/ RollbackMetadata
    \/ RollbackDrop

\* The forms a master can select for a meeting: none, or the form.
FormSelections == {<<>>, <<1>>}

\* The master creates meetings, one submission at a time, on a store that has
\* meetings with assigned numbers already.
NextCreate ==
    \/ \E table_name \in {PoolTable, NewTable}, max_number \in CreateSizes,
          selected_forms \in FormSelections :
            MeetingSubmit(table_name, max_number, selected_forms, MaxCreateRuns)
    \/ CreateStep

SpecCreate == InitForm /\ [][NextCreate]_vars

\* The store of InitForm after "Criar Formulario" has written a second form,
\* of one text question.
SecondFormTable == "f2"

InitLinks ==
    /\ tables = (PoolTable :> AssignedPool(MaxNumber, 1, 1)) @@ (SecondPool :> AssignedPool(MaxNumber, 2, 2))
    /\ meetings = <<[id |-> 1, table_name |-> PoolTable, max_number |-> MaxNumber],
                    [id |-> 2, table_name |-> SecondPool, max_number |-> MaxNumber]>>
    /\ clock = 3
    /\ sess = [s \in Sessions |-> IdleSession]
    /\ runs = 0
    /\ ids = 2
    /\ forms = Forms0 \o <<[id |-> 2, form_name |-> "G", table_name |-> SecondFormTable]>>
    /\ questions = Questions0 \o
            <<[id |-> 3, form_id |-> 2, question_type |-> "text", correct_answer |-> ""]>>
    /\ options = Options0
    /\ responses = <<>>
    /\ log = <<[table |-> PoolTable, id |-> 1, out |-> 1, wrote |-> TRUE],
               [table |-> SecondPool, id |-> 2, out |-> 1, wrote |-> TRUE]>>
    /\ stable = [i \in Identities |-> IF i = 1 THEN 1 ELSE Null]
    /\ submitted = {}
    /\ answerers = {}
    /\ meeting_forms = <<>>
    /\ meeting_seq = 2
    /\ master = IdleMaster

MaxLinkRuns == 2    \* "Criar Reuniao" submissions of an execution with two forms

\* What st.multiselect can give for two forms, in the order they were picked.
LinkSelections == {<<>>, <<1>>, <<2>>, <<1, 2>>, <<2, 1>>}

\* The master creates meetings with any selection of the two forms.
NextLinks ==
    \/ \E table_name \in {PoolTable, NewTable}, max_number \in 1..MaxNumber,
          selected_forms \in LinkSelections :
            MeetingSubmit(table_name, max_number, selected_forms, MaxLinkRuns)
    \/ CreateStep

SpecLinks == InitLinks /\ [][NextLinks]_vars

MaxPoolRuns == 2    \* script runs started in an execution with pools created and used

\* The master creates meetings while participants ask for numbers, of a pool
\* that exists and of the pool being created.
NextPools ==
    \/ \E table_name \in {PoolTable, NewTable}, max_number \in 1..MaxNumber,
          selected_forms \in FormSelections :
            MeetingSubmit(table_name, max_number, selected_forms, MaxPoolRuns)
    \/ CreateStep
    \/ \E s \in Sessions :
        \/ \E t \in {PoolTable, NewTable}, tok \in Tokens : ParticipantOpen(s, t, tok, MaxPoolRuns)
        \/ ParticipantStep(s)

SpecPools == InitForm /\ [][NextPools]_vars

\* ------------------------------------------ the other master pages (436-778)
\* A master run that ended with outcome pc; its locals are dropped.
EndedMaster(pc) == [KeepSession EXCEPT !.pc = pc]

\* The master opens a page (or presses a button of it): a new script run.
MasterOpen(pc, cap) ==
    /\ master.pc \in MasterEnded
    /\ runs < cap
    /\ master' = [KeepSession EXCEPT !.pc = pc]
    /\ runs' = runs + 1
    /\ UNCHANGED <<tables, meetings, clock, sess, ids, forms, questions, options, responses,
                   log, stable, submitted, answerers, meeting_forms, meeting_seq>>

\* Lines 436-459, "Compartilhar Link da Reuniao": the meetings, then the link
\* of the selected one.
ShareMeetings ==
    /\ master.pc = "s_meetings"
    /\ \E fails \in BOOLEAN :
        master' = EndedMaster(IF get_available_meetings(fails).ret = <<>> THEN "s_none" ELSE "s_link")
    /\ UNCHANGED storeVars

\* Lines 749-764, "Compartilhar Link do Formulario": the forms and the general
\* link of the selected one.
ShareForms ==
    /\ master.pc = "sf_forms"
    /\ \E fails \in BOOLEAN :
        master' = IF get_available_forms(fails).ret = <<>> THEN EndedMaster("sf_none")
                  ELSE [master EXCEPT !.pc = "sf_meetings"]
    /\ UNCHANGED storeVars

\* Lines 766-769: the meetings whose assigned users get a link each.
ShareFormMeetings ==
    /\ master.pc = "sf_meetings"
    /\ \E fails \in BOOLEAN :
        LET available == get_available_meetings(fails).ret IN
        master' = IF available = <<>> THEN EndedMaster("sf_links")
                  ELSE [master EXCEPT !.pc = "sf_users",
                            !.mlist = [k \in DOMAIN available |-> available[k].table_name]]
    /\ UNCHANGED storeVars

\* Lines 769-778: one pass of the loop: select("user_id, number").eq("assigned",
\* True) on the next meeting table.
ShareFormUsers ==
    /\ master.pc = "sf_users"
    /\ TableExists(Head(master.mlist))
    /\ master' = IF Tail(master.mlist) = <<>> THEN EndedMaster("sf_links")
                 ELSE [master EXCEPT !.mlist = Tail(@)]
    /\ UNCHANGED storeVars

\* Lines 468-475, "Ver Estatisticas": the meetings and the selected one.
StatsMeetings ==
    /\ master.pc = "st_meetings"
    /\ \E fails \in BOOLEAN :
        LET available == get_available_meetings(fails).ret IN
        IF available = <<>> THEN master' = EndedMaster("st_none")
        ELSE \E k \in DOMAIN available :
                master' = [master EXCEPT !.pc = "st_info", !.selected = available[k].table_name]
    /\ UNCHANGED storeVars

\* Lines 479-480: the id of the selected meeting; data[0] of an empty result
\* raises (see MasterCrash).
StatsInfo ==
    /\ master.pc = "st_info"
    /\ MeetingInfo(master.selected) # <<>>
    /\ \E k \in DOMAIN MeetingInfo(master.selected) :
        master' = [master EXCEPT !.pc = "st_counts", !.meeting_id = MeetingInfo(master.selected)[k].id]
    /\ UNCHANGED storeVars

\* Lines 482-533: the counts, the hourly chart and, with "Exportar Dados de
\* Numeros" pressed, the CSV of the whole table: selects on the meeting table
\* inside try blocks; a failure renders an error and the page goes on.
StatsCounts ==
    /\ master.pc = "st_counts"
    /\ master' = [master EXCEPT !.pc = "st_forms"]
    /\ UNCHANGED storeVars

\* Lines 535-538 and 577-578: the forms of the meeting.
StatsForms ==
    /\ master.pc = "st_forms"
    /\ \E failsAt \in 0..2 :
        LET fs == get_forms_for_meeting(master.meeting_id, failsAt).ret IN
        master' = IF fs = <<>> THEN EndedMaster("st_noforms")
                  ELSE [master EXCEPT !.pc = "st_responses", !.flist = {fs[k].id : k \in DOMAIN fs}]
    /\ UNCHANGED storeVars

\* Lines 539-540 and 575-576: the responses to those forms.
StatsResponses ==
    /\ master.pc = "st_responses"
    /\ LET rows == SelectSeq(responses, LAMBDA r : r.form_id \in master.flist) IN
        master' = IF rows = <<>> THEN EndedMaster("st_noanswers")
                  ELSE [master EXCEPT !.pc = "st_grade", !.rlist = rows]
    /\ UNCHANGED storeVars

\* str.lower() of the texts a participant types.
Lower(x) == IF x = "Hello" THEN "hello" ELSE x

\* Lines 547-554 and 561: the "Correta" column of a response to a question.
\* An empty correct_answer is None here: both are false in "if
\* question['correct_answer']".
Grade(question, answer) ==
    IF question.question_type = "multiple_choice"
    THEN IF question.correct_answer # ""
         THEN IF answer = question.correct_answer THEN "Correta" ELSE "Incorreta"
         ELSE "N/A"
    ELSE IF question.question_type = "text" /\ question.correct_answer # ""
         THEN IF Lower(answer) = Lower(question.correct_answer) THEN "Correta" ELSE "Incorreta"
         ELSE "N/A"

\* Lines 546-550: the "Resposta" column: the text of the option whose id is
\* the answer, or the answer itself.
AnswerDisplay(question, answer) ==
    LET option == SelectSeq(options, LAMBDA o : Str(o.id) = answer) IN
    IF question.question_type = "multiple_choice" /\ option # <<>>
    THEN option[1].option_text
    ELSE answer

\* Lines 542-574: one pass of the loop over the responses: the select of the
\* response's question (data[0] of an empty result raises, see MasterCrash) and
\* of the option answered, then the row of the table; after the last one the
\* table is displayed.
StatsGrade ==
    /\ master.pc = "st_grade"
    /\ \E q \in DOMAIN questions :
        /\ questions[q].id = Head(master.rlist).question_id
        /\ LET resp == Head(master.rlist)
               row == [Participante |-> resp.participant_id, Pergunta |-> questions[q].id,
                       Resposta |-> AnswerDisplay(questions[q], resp.answer),
                       Correta |-> Grade(questions[q], resp.answer)]
           IN  master' = IF Tail(master.rlist) = <<>>
                         THEN [EndedMaster("st_shown") EXCEPT !.graded = Append(master.graded, row)]
                         ELSE [master EXCEPT !.rlist = Tail(@), !.graded = Append(@, row)]
    /\ UNCHANGED storeVars

\* table_name of the k-th form "Criar Formulario" writes (line 688 builds it
\* from the clock's second and the form name).
FormTableOf(k) == <<FormTable, "f2", "f3", "f4", "f5", "f6">>[k]

MaxForms == 2       \* forms the catalog can hold

\* The drafts a master submits: no question, a text question, a
\* multiple-choice question with two options and the first marked correct.
FormDrafts ==
    {<<>>,
     <<[type |-> "text", options |-> <<>>, correct |-> ""]>>,
     <<[type |-> "multiple_choice", options |-> <<"Red", "Blue">>, correct |-> "Red"]>>}

\* Lines 686-687 and 722-723: "Criar Formulario" pressed; without a question
\* the run ends with a warning.
FormCreateSubmit(draft, cap) ==
    /\ master.pc \in MasterEnded
    /\ runs < cap
    /\ Len(forms) < MaxForms
    /\ master' = [KeepSession EXCEPT !.pc = IF draft = <<>> THEN "fc_warning" ELSE "fc_form",
                                     !.draft = draft]
    /\ runs' = runs + 1
    /\ UNCHANGED <<tables, meetings, clock, sess, ids, forms, questions, options, responses,
                   log, stable, submitted, answerers, meeting_forms, meeting_seq>>

\* Lines 688-691: the forms_metadata row.
CreateFormRow ==
    /\ master.pc = "fc_form"
    /\ forms' = Append(forms, [id |-> Len(forms) + 1, form_name |-> "G",
                               table_name |-> FormTableOf(Len(forms) + 1)])
    /\ master' = [master EXCEPT !.pc = "fc_question", !.form_id = Len(forms) + 1, !.qidx = 1]
    /\ UNCHANGED <<tables, meetings, clock, sess, runs, ids, questions, options, responses,
                   log, stable, submitted, answerers, meeting_forms, meeting_seq>>

\* The position after question qidx is done: the next question, or lines
\* 710-721 (the success message, the draft reset and the rerun on the share
\* page).
AfterQuestion(m) ==
    IF m.qidx < Len(m.draft)
    THEN [m EXCEPT !.pc = "fc_question", !.qidx = @ + 1]
    ELSE [IdleMaster EXCEPT !.pc = "fc_created"]

\* The position after option oidx is done: the next option or the next question.
AfterOption(m) ==
    IF m.oidx < Len(m.draft[m.qidx].options)
    THEN [m EXCEPT !.pc = "fc_option", !.oidx = @ + 1]
    ELSE AfterQuestion(m)

\* Lines 693-703: the questions row of the next question of the draft;
\* correct_answer holds q['correct'] (an option's text for multiple choice).
CreateQuestion ==
    /\ master.pc = "fc_question"
    /\ LET q == master.draft[master.qidx] IN
        /\ questions' = Append(questions,
                [id |-> Len(questions) + 1, form_id |-> master.form_id,
                 question_type |-> q.type, correct_answer |-> q.correct])
        /\ master' = IF q.type = "multiple_choice" /\ q.options # <<>>
                     THEN [master EXCEPT !.pc = "fc_option", !.oidx = 1,
                                         !.question_id = Len(questions) + 1]
                     ELSE AfterQuestion(master)
    /\ UNCHANGED <<tables, meetings, clock, sess, runs, ids, forms, options, responses,
                   log, stable, submitted, answerers, meeting_forms, meeting_seq>>

\* Lines 704-707: the options row of the next option of the question.
CreateOption ==
    /\ master.pc = "fc_option"
    /\ LET q == master.draft[master.qidx]
           opt == q.options[master.oidx]
       IN
        /\ options' = Append(options,
                [id |-> Len(options) + 1, question_id |-> master.question_id, option_text |-> opt])
        /\ master' = IF opt = q.correct
                     THEN [master EXCEPT !.pc = "fc_correct", !.option_id = Len(options) + 1]
                     ELSE AfterOption(master)
    /\ UNCHANGED <<tables, meetings, clock, sess, runs, ids, forms, questions, responses,
                   log, stable, submitted, answerers, meeting_forms, meeting_seq>>

\* Line 708: correct_answer of the question becomes str(id) of the option.
UpdateCorrect ==
    /\ master.pc = "fc_correct"
    /\ questions' = [k \in DOMAIN questions |->
                        IF questions[k].id = master.question_id
                        THEN [questions[k] EXCEPT !.correct_answer = Str(master.option_id)]
                        ELSE questions[k]]
    /\ master' = AfterOption(master)
    /\ UNCHANGED <<tables, meetings, clock, sess, runs, ids, forms, options, responses,
                   log, stable, submitted, answerers, meeting_forms, meeting_seq>>

\* A store call of a master page outside any try block raises (lines 479-480,
\* 539, 544, 549, 690-708, 770): the exception ends the run; the failed call
\* changed nothing.
MasterCrash ==
    /\ master.pc \in {"st_info", "st_responses", "st_grade", "sf_users",
                      "fc_form", "fc_question", "fc_option", "fc_correct"}
    /\ master' = EndedMaster("m_crash")
    /\ UNCHANGED storeVars

PageStep ==
    \/ ShareMeetings
    \/ ShareForms
    \/ ShareFormMeetings
    \/ ShareFormUsers
    \/ StatsMeetings
    \/ StatsInfo
    \/ StatsCounts
    \/ StatsForms
    \/ StatsResponses
    \/ StatsGrade
    \/ CreateFormRow
    \/ CreateQuestion
    \/ CreateOption
    \/ UpdateCorrect
    \/ MasterCrash

FormCreateStep ==
    \/ CreateFormRow
    \/ CreateQuestion
    \/ CreateOption
    \/ UpdateCorrect
    \/ MasterCrash

\* ------------------------------ the draft of "Gerenciar Formularios" (606-684)
\* Every button press is one script run on st.session_state; the page's only
\* store call (get_available_forms, line 726) is a read that swallows its
\* failure.  A run ends with the page displayed.
NoCorrect == "Nenhuma"      \* the first entry of the "Opcao Correta" selectbox

\* list.pop(i), for a Python index i.
Pop(seq, i) == [k \in 1..(Len(seq) - 1) |-> IF k <= i THEN seq[k] ELSE seq[k + 1]]

\* Lines 677-682 without the shift of a later index (not what the code does).
IndexAfterDelete_NoShift(current, i) ==
    IF current = i THEN NoIndex ELSE current

\* Lines 677-682: current_question_index after questions.pop(i).
IndexAfterDelete(current, i) ==
    IF current = i THEN NoIndex
    ELSE IF current # NoIndex /\ current > i THEN current - 1
    ELSE current

\* Line 630: the options sub-form is displayed.
OptionsFormActive(m) == m.show_options_form /\ m.current_question_index # NoIndex

\* Lines 610-628, "Adicionar Pergunta"; cap bounds the questions of a draft.
AddQuestion(question_type, question_text, cap) ==
    /\ master.pc \in MasterEnded
    /\ IF question_text # ""
       THEN /\ Len(master.draft) < cap
            /\ master' = [KeepSession EXCEPT
                    !.pc = "fa_page",
                    !.draft = Append(@, [type |-> question_type, options |-> <<>>, correct |-> ""]),
                    !.show_options_form = (question_type = "multiple_choice"),
                    !.current_question_index =
                        IF question_type = "multiple_choice" THEN Len(master.draft) ELSE @,
                    !.current_options = IF question_type = "multiple_choice" THEN <<>> ELSE @,
                    !.success = "Pergunta adicionada!"]
       ELSE master' = [KeepSession EXCEPT !.pc = "fa_page",
                                          !.err = "O texto da pergunta e obrigatorio."]
    /\ UNCHANGED storeVars

\* Lines 630-639, "Adicionar Opcao"; cap bounds the options of a question.
AddOption(option_text, cap) ==
    /\ master.pc \in MasterEnded
    /\ OptionsFormActive(master)
    /\ IF option_text # ""
       THEN /\ Len(master.current_options) < cap
            /\ master' = [KeepSession EXCEPT !.pc = "fa_page",
                                             !.current_options = Append(@, option_text),
                                             !.success = "Opcao adicionada!"]
       ELSE master' = [KeepSession EXCEPT !.pc = "fa_page",
                                          !.err = "O texto da opcao e obrigatorio."]
    /\ UNCHANGED storeVars

\* Lines 646-657, "Finalizar Opcoes": questions[current_idx] of an index out
\* of range raises IndexError, which ends the run.
FinalizeOptions(correct_option) ==
    /\ master.pc \in MasterEnded
    /\ OptionsFormActive(master)
    /\ Len(master.current_options) >= 2
    /\ correct_option \in {NoCorrect} \cup {master.current_options[k] : k \in DOMAIN master.current_options}
    /\ LET current_idx == master.current_question_index IN
        master' = IF current_idx + 1 \in DOMAIN master.draft
                  THEN [KeepSession EXCEPT
                            !.pc = "fa_page",
                            !.draft[current_idx + 1].options = master.current_options,
                            !.draft[current_idx + 1].correct =
                                IF correct_option # NoCorrect THEN correct_option ELSE @,
                            !.show_options_form = FALSE,
                            !.current_question_index = NoIndex,
                            !.current_options = <<>>,
                            !.success = "Opcoes salvas!"]
                  ELSE [KeepSession EXCEPT !.pc = "m_crash"]
    /\ UNCHANGED storeVars

\* Lines 671-684, "Deletar" of the question at Python index i.
DeleteQuestion(i) ==
    /\ master.pc \in MasterEnded
    /\ i \in 0..(Len(master.draft) - 1)
    /\ master' = [KeepSession EXCEPT
            !.pc = "fa_page",
            !.draft = Pop(@, i),
            !.show_options_form = IF master.current_question_index = i THEN FALSE ELSE @,
            !.current_question_index = IndexAfterDelete(@, i),
            !.current_options = IF master.current_question_index = i THEN <<>> ELSE @,
            !.success = "Pergunta deletada!"]
    /\ UNCHANGED storeVars

MaxDraftQuestions == 3  \* questions of a draft
MaxDraftOptions == 2    \* options collected for a question of a draft

QuestionTypes == {"text", "multiple_choice"}

\* The master edits the draft: any sequence of the four buttons.
NextDraft ==
    \/ \E question_type \in QuestionTypes, question_text \in {"", "Q"} :
            AddQuestion(question_type, question_text, MaxDraftQuestions)
    \/ \E option_text \in {"", "Red"} : AddOption(option_text, MaxDraftOptions)
    \/ \E correct_option \in {NoCorrect, "Red"} : FinalizeOptions(correct_option)
    \/ \E i \in 0..(MaxDraftQuestions - 1) : DeleteQuestion(i)

SpecDraft == InitForm /\ [][NextDraft]_vars

MaxAuthorForms == 1     \* "Criar Formulario" submissions of an execution

\* The master edits the draft and creates forms from it.
NextAuthor ==
    \/ NextDraft
    \/ FormCreateSubmit(master.draft, MaxAuthorForms)
    \/ FormCreateStep

SpecAuthor == InitForm /\ [][NextAuthor]_vars

StatsStep ==
    \/ StatsMeetings
    \/ StatsInfo
    \/ StatsCounts
    \/ StatsForms
    \/ StatsResponses
    \/ StatsGrade

\* --------------------------------- from the draft to the graded response
MaxGradeRuns == 5       \* script runs started, the draft's button presses apart
MaxGradeQuestions == 1  \* questions of a draft
MaxGradeOptions == 2    \* options collected for a question of a draft

\* No run is in flight, of a participant session or of the master session.
QuietAll == Quiet /\ master.pc \in MasterEnded

\* One run at a time and in this order: the master writes a draft and creates
\* the form from it, creates a meeting with the form selected, participants
\* take numbers and answer the form, the master opens the statistics of a
\* meeting.
NextGrade ==
    \/ /\ QuietAll
       /\ \/ /\ runs = 0
             /\ \/ \E question_type \in QuestionTypes :
                        AddQuestion(question_type, "Q", MaxGradeQuestions)
                \/ \E option_text \in {"Red", "Blue"} : AddOption(option_text, MaxGradeOptions)
                \/ \E correct_option \in {NoCorrect, "Red", "Blue"} : FinalizeOptions(correct_option)
                \/ FormCreateSubmit(master.draft, MaxGradeRuns)
          \/ runs = 1 /\ MeetingSubmit(NewTable, 1, <<2>>, MaxGradeRuns)
          \/ /\ runs >= 2
             /\ \E s \in Sessions :
                \/ FormOpen(s, SecondFormTable, 1, MaxGradeRuns - 1)
                \/ \E inp \in WidgetInputs(sess[s].qs) : FormSubmit(s, inp, MaxGradeRuns - 1)
                \/ ParticipantOpen(s, PoolTable, Null, MaxGradeRuns - 1)
          \/ runs = MaxGradeRuns - 1 /\ MasterOpen("st_meetings", MaxGradeRuns)
    \/ FormCreateStep
    \/ CreateStep
    \/ StatsStep
    \/ \E s \in Sessions : FormStep(s) \/ ParticipantStep(s)

SpecGrade == InitForm /\ [][NextGrade]_vars

\* --------------------------------------------------------- the whole script
MaxAllRuns == 3     \* script runs started in an execution of the whole script

\* The store of InitForm with the form linked to the first meeting.
InitAll ==
    /\ tables = (PoolTable :> AssignedPool(MaxNumber, 1, 1)) @@ (SecondPool :> AssignedPool(MaxNumber, 2, 2))
    /\ meetings = <<[id |-> 1, table_name |-> PoolTable, max_number |-> MaxNumber],
                    [id |-> 2, table_name |-> SecondPool, max_number |-> MaxNumber]>>
    /\ clock = 3
    /\ sess = [s \in Sessions |-> IdleSession]
    /\ runs = 0
    /\ ids = 2
    /\ forms = Forms0 /\ questions = Questions0 /\ options = Options0
    /\ responses = <<>>
    /\ log = <<[table |-> PoolTable, id |-> 1, out |-> 1, wrote |-> TRUE],
               [table |-> SecondPool, id |-> 2, out |-> 1, wrote |-> TRUE]>>
    /\ stable = [i \in Identities |-> IF i = 1 THEN 1 ELSE Null]
    /\ submitted = {}
    /\ answerers = {}
    /\ meeting_forms = <<LinkRow(1, 1)>>
    /\ meeting_seq = 2
    /\ master = IdleMaster

\* Participant sessions and the master session run every mode of the script,
\* interleaved between store calls.
NextAll ==
    \/ \E s \in Sessions :
        \/ \E tok \in Tokens : FormOpen(s, FormTable, tok, MaxAllRuns)
        \/ \E inp \in WidgetInputs(sess[s].qs) : FormSubmit(s, inp, MaxAllRuns)
        \/ FormStep(s)
        \/ \E tok \in Tokens : ParticipantOpen(s, PoolTable, tok, MaxFormPoolRuns)
        \/ ParticipantStep(s)
    \/ \E table_name \in {PoolTable, NewTable}, max_number \in 1..MaxNumber,
          selected_forms \in FormSelections :
            MeetingSubmit(table_name, max_number, selected_forms, MaxAllRuns)
    \/ CreateStep
    \/ \E pc \in {"s_meetings", "sf_forms", "st_meetings"} : MasterOpen(pc, MaxAllRuns)
    \/ \E draft \in FormDrafts : FormCreateSubmit(draft, MaxAllRuns)
    \/ PageStep

SpecAll == InitAll /\ [][NextAll]_vars

\* ------------------------------------------------------------------ claims
PoolRows == tables[PoolTable]

\* The log positions of the runs that issued the update for number n.
Writers(n) == {k \in DOMAIN log : log[k].wrote /\ log[k].out = n}

\* The identity whose update of number n ran last.
LastWriter(n) == log[CHOOSE k \in Writers(n) : \A j \in Writers(n) : j <= k].id

\* C1: any two distinct identities that were each shown a number of the pool
\* were shown different numbers.
C1_DistinctIdentitiesDistinctNumbers ==
    \A i, j \in Identities : i # j => Shown(i) \cap Shown(j) = {}

\* C2: a run that starts after a run of the same identity was shown a number,
\* with no update of the pool by any other run since that number was shown,
\* finds its slot (never reaches the assignment path), performs no update and,
\* when it displays a number, displays the same one.
C2_RepeatRequestSameNumber ==
    \A s \in Sessions :
        sess[s].prev # Null =>
            /\ sess[s].pc \notin {"p_unassigned", "p_update", "p_exhausted"}
            /\ ~sess[s].wrote
            /\ sess[s].pc = "p_shown" => sess[s].num = sess[s].prev

\* C3: every run presenting a given token that is shown a number is shown the
\* number every earlier run of that token was shown.
C3_SameTokenSameNumber ==
    \A i \in Identities : Cardinality(Shown(i)) <= 1

\* C4 (witness): two runs of distinct identities both issued the update for
\* the same number, and so both displayed it.
C4_TwoIdentitiesWroteSameNumber ==
    \E k1, k2 \in DOMAIN log :
        /\ k1 < k2
        /\ log[k1].wrote /\ log[k2].wrote
        /\ log[k1].out = log[k2].out
        /\ log[k1].id # log[k2].id

\* C4: whenever two runs of distinct identities have both issued the update
\* for the same number, both were shown it without an error, and the slot row
\* is bound to the identity whose update ran last only: the earlier identity
\* owns that slot no longer.
C4_LastWriteWins ==
    \A k1, k2 \in DOMAIN log :
        (/\ k1 < k2
         /\ log[k1].wrote /\ log[k2].wrote
         /\ log[k1].out = log[k2].out
         /\ log[k1].id # log[k2].id)
        => LET n == log[k1].out IN
            /\ n \in Shown(log[k1].id) \cap Shown(log[k2].id)
            /\ \A r \in DOMAIN PoolRows :
                PoolRows[r].number = n =>
                    /\ PoolRows[r].assigned
                    /\ PoolRows[r].user_id = LastWriter(n)
            /\ \A i \in {log[k1].id, log[k2].id} \ {LastWriter(n)} :
                n \notin AvailableNumbers(ExistingRows(PoolTable, i))

\* C5: a run of a new identity that starts once as many distinct identities as
\* the pool has slots have been shown a number ends exhausted: it never gets
\* to the update and is shown no number.
C5_ExhaustedAfterNIdentities ==
    \A s \in Sessions :
        sess[s].full =>
            /\ sess[s].pc \notin {"p_update", "p_shown"}
            /\ ~sess[s].wrote

\* C6: once a slot has assigned = true and a user_id, no step changes its
\* assigned flag or its user_id.
C6_SlotMutatedOnce ==
    [][\A k \in DOMAIN PoolRows :
            PoolRows[k].assigned =>
                /\ tables'[PoolTable][k].assigned = PoolRows[k].assigned
                /\ tables'[PoolTable][k].user_id = PoolRows[k].user_id]_vars

\* C7: at most one slot of the pool is bound to any given user_id.
C7_OneSlotPerIdentity ==
    \A u \in Identities : Len(ExistingRows(PoolTable, u)) <= 1

\* The identities of the logged runs, in order.
LogIds == [k \in DOMAIN log |-> log[k].id]

IsPrefix(a, b) == Len(a) <= Len(b) /\ \A k \in DOMAIN a : a[k] = b[k]

\* C8, a step: a run that is shown a number it did not own before was shown a
\* number that was unassigned, and exactly that slot becomes assigned and
\* bound to the run's identity; every other step leaves every slot unchanged.
C8_AssignStep ==
    IF Len(log') > Len(log) /\ log'[Len(log')].wrote
    THEN LET e == log'[Len(log')] IN
        /\ ExistingRows(PoolTable, e.id) = <<>>
        /\ e.out \in AvailableNumbers(UnassignedRows(PoolTable))
        /\ \A k \in DOMAIN PoolRows :
            IF PoolRows[k].number = e.out
            THEN /\ tables'[PoolTable][k].assigned
                 /\ tables'[PoolTable][k].user_id = e.id
                 /\ tables'[PoolTable][k].assigned_at # Null
            ELSE tables'[PoolTable][k] = PoolRows[k]
    ELSE tables' = tables

\* C8, the scenario: on a pool {1,2,3} the runs A, A, B, C, D (identities 1, 1,
\* 2, 3, 4) are shown n, n, a number other than n, the remaining number, and
\* the last ends exhausted.
C8_Scenario ==
    (Len(PoolRows) = 3 /\ IsPrefix(LogIds, <<1, 1, 2, 3, 4>>)) =>
        \A k \in DOMAIN log :
            /\ k = 1 => log[k].out \in 1..3
            /\ k = 2 => log[k].out = log[1].out
            /\ k = 3 => log[k].out \in (1..3) \ {log[1].out}
            /\ k = 4 => log[k].out \in (1..3) \ {log[1].out, log[3].out}
            /\ k = 5 => log[k].out = Exhausted

\* C8: with runs one at a time, both of the above.
C8_OneAtATime == [][C8_AssignStep]_vars /\ []C8_Scenario

\* C8 (witness): the scenario has run to its end on a pool of three.
C8_ScenarioDone == Len(PoolRows) = 3 /\ LogIds = <<1, 1, 2, 3, 4>>

\* C9: a run that starts after a submission for (participant_id, form_id) ran
\* to its success message is refused at the answered check for that pair: it
\* never gets to display the form or to insert a Response row.
C9_SecondSubmissionRefused ==
    \A s \in Sessions :
        sess[s].pc \in {"f_render", "f_shown", "f_incomplete", "f_insert"} =>
            <<sess[s].pid, sess[s].form_id>> \notin sess[s].late

\* C10: the responses table holds at most one row per (participant_id,
\* form_id, question_id).
C10_OneRowPerAnswer ==
    \A j, k \in DOMAIN responses :
        j # k =>
            ~(/\ responses[j].participant_id = responses[k].participant_id
              /\ responses[j].form_id = responses[k].form_id
              /\ responses[j].question_id = responses[k].question_id)

\* The questions of the form a link names, as the catalog holds them.
FormQuestions(t) == IF FormInfo(t) = <<>> THEN <<>> ELSE QuestionsOf(FormInfo(t)[1].id)

\* The known pools in which identity u is bound to a slot.
BoundPools(u) ==
    {k \in DOMAIN meetings :
        /\ TableExists(meetings[k].table_name)
        /\ ExistingRows(meetings[k].table_name, u) # <<>>}

\* C14, the refusal: a form run ends with "Voce precisa ter um numero
\* atribuido" only for an identity bound to no slot of any known pool.
C14_RefusalStep ==
    \A s \in Sessions :
        (sess[s].pc \in {"f_meetings", "f_lookup"} /\ sess'[s].pc = "f_nonumber")
            => BoundPools(sess[s].uid) = {}

\* C14, getting past the lookup: a form run that reaches the answered check,
\* the form or the inserts belongs to an identity bound to a slot.
C14_PastLookup ==
    \A s \in Sessions :
        sess[s].pc \in {"f_answered", "f_render", "f_shown", "f_incomplete", "f_insert"}
            => BoundPools(sess[s].uid) # {}

\* C14: a form run of an identity bound to no slot in any known pool is refused
\* with the no-number error (it never shows the form and inserts nothing), and
\* an identity bound to a slot in some pool is never refused for that reason.
C14_NoNumberRefused == [][C14_RefusalStep]_vars /\ []C14_PastLookup

\* A submitted form has a question without an answer: an empty text or no
\* option selected.
MissingAnswer(t, input) ==
    \E k \in DOMAIN FormQuestions(t) :
        \/ FormQuestions(t)[k].id \notin DOMAIN input
        \/ input[FormQuestions(t)[k].id] \in {"", NoChoice}

\* C15: no step of a submission with a missing answer changes the store: no
\* Response row is written for any of its questions.
C15_IncompleteWritesNothing ==
    [][\A s \in Sessions :
            (/\ sess[s].submit
             /\ MissingAnswer(sess[s].table, sess[s].input)
             /\ sess'[s] # sess[s])
            => UNCHANGED <<tables, meetings, forms, questions, options, responses, meeting_forms>>]_vars

\* C15 (witness): a submission was refused with "Preencha todas as respostas".
C15_IncompleteRefused == \E s \in Sessions : sess[s].pc = "f_incomplete"

\* The answer column for question q given what the participant entered: the
\* text typed, or the decimal id of the option with the selected text.
ExpectedAnswer(q, input) ==
    IF q.question_type = "text" THEN input[q.id]
    ELSE Str((CHOOSE o \in {options[k] : k \in DOMAIN options} :
                o.question_id = q.id /\ o.option_text = input[q.id]).id)

\* C16, a step: the responses table changes only by one insert of a complete
\* submission; the k-th insert of a run appends the row of the k-th question
\* of the form, carrying the form's id, a number shown to the session identity
\* as participant_id, the question's id and the answer entered; and the run
\* ends with the success redirect exactly after the row of the last question.
C16_InsertStep ==
    responses' # responses =>
        \E s \in Sessions :
            LET qs == FormQuestions(sess[s].table)
                k == sess[s].qidx
            IN  /\ sess[s].pc = "f_insert" /\ sess[s].submit
                /\ ~MissingAnswer(sess[s].table, sess[s].input)
                /\ k \in DOMAIN qs
                /\ Len(responses') = Len(responses) + 1
                /\ SubSeq(responses', 1, Len(responses)) = responses
                /\ LET row == responses'[Len(responses')] IN
                    /\ DOMAIN row = {"form_id", "participant_id", "question_id", "answer"}
                    /\ row.form_id = FormInfo(sess[s].table)[1].id
                    /\ \E e \in DOMAIN log :
                        /\ log[e].id = sess[s].uid /\ log[e].out # Exhausted
                        /\ row.participant_id = Str(log[e].out)
                    /\ row.question_id = qs[k].id
                    /\ row.answer = ExpectedAnswer(qs[k], sess[s].input)
                /\ (sess'[s].pc = "p_check") <=> (k = Len(qs))
                /\ (sess'[s].pc # "p_check") => (sess'[s].pc = "f_insert" /\ sess'[s].qidx = k + 1)

\* C16: a complete submission whose inserts all succeed writes exactly one
\* Response row per question of the form, in question order, each with the
\* form_id, the participant's number, the question_id and the answer, and
\* nothing else.
C16_OneRowPerQuestion == [][C16_InsertStep]_vars

\* C16 (witness): a submission ran to "Respostas enviadas com sucesso!" and
\* the table holds a row for every question of the form.
C16_SubmissionDone ==
    /\ submitted # {}
    /\ \A k \in DOMAIN FormQuestions(FormTable) :
        \E j \in DOMAIN responses : responses[j].question_id = FormQuestions(FormTable)[k].id

\* What a submission whose first insert failed leaves of its run: the uncaught
\* exception's traceback, no row written.
TotalFailure == EndedRun("f_crash")

\* C17: a submission whose insert fails after some of its rows were written
\* ends with an outcome that differs from that of a total failure (one that
\* tells the rows committed).
C17_PartialFailureReported ==
    [][\A s \in Sessions :
            (/\ sess[s].pc = "f_insert" /\ sess[s].qidx > 1
             /\ sess'[s].pc \notin {"f_insert", "p_check"})
            => sess'[s] # TotalFailure]_vars

\* C20: no run, of a participant session or of the master session, ends by a
\* store failure that propagates uncaught out of the script.
C20_NoUncaughtStoreFailure ==
    /\ \A s \in Sessions : sess[s].pc # "f_crash"
    /\ master.pc # "m_crash"

\* The link rows of meeting m.
LinksOf(m) == {k \in DOMAIN meeting_forms : meeting_forms[k].meeting_id = m}

\* The query of the recorded call matched no row (for get_forms_for_meeting:
\* no link row, or no form with a linked id).
ZeroRows ==
    CASE master.fn = "get_available_meetings" -> Len(meetings) = 0
      [] master.fn = "get_available_forms" -> Len(forms) = 0
      [] master.fn = "get_forms_for_meeting" ->
            ~\E k \in LinksOf(master.meeting_id), f \in DOMAIN forms :
                forms[f].id = meeting_forms[k].form_id
      [] master.fn = "get_answered_forms" ->
            ~\E k \in DOMAIN responses : responses[k].participant_id = master.participant_id

\* A query of the recorded call raised (the second query of
\* get_forms_for_meeting is issued only when there is a link row).
QueryFailed ==
    \/ master.failsAt = 1
    \/ master.failsAt = 2 /\ master.fn = "get_forms_for_meeting" /\ LinksOf(master.meeting_id) # {}

\* C18: a call of a catalog accessor whose query succeeds with zero rows
\* returns an empty collection and renders no error; a call whose query fails
\* has an outcome (return value and rendered message) that differs from that.
C18_FailureDistinctFromEmpty ==
    master.pc = "called" =>
        /\ (~QueryFailed /\ ZeroRows) => (master.empty /\ master.err = NoError)
        /\ QueryFailed => <<master.empty, master.err>> # <<TRUE, NoError>>

\* C18 (witness): get_answered_forms was called and its select raised.
C18_AnsweredFormsFailed ==
    master.pc = "called" /\ master.fn = "get_answered_forms" /\ QueryFailed

\* C11: when create_meeting_table has returned True for max_number >= 1, the
\* created table holds exactly one row for each number of 1..max_number and no
\* other row, each row unassigned with no user_id.
C11_OneSlotPerNumber ==
    master.pc = "m_created" =>
        LET rows == tables[master.table_name] IN
        /\ master.max_number >= 1
        /\ \A n \in 1..master.max_number :
            Cardinality({k \in DOMAIN rows : rows[k].number = n}) = 1
        /\ \A k \in DOMAIN rows :
            /\ rows[k].number \in 1..master.max_number
            /\ rows[k].assigned = FALSE
            /\ rows[k].user_id = Null

\* C11 (witness): a pool whose size is not a multiple of the batch size, and
\* larger than one batch, was created.
C11_CreatedUnevenPool ==
    /\ master.pc = "m_created"
    /\ master.max_number > batch_size
    /\ master.max_number % batch_size # 0

\* C12: when a step of create_meeting_table has failed and both rollback calls
\* succeeded, the function has returned False, no meetings_metadata row has
\* the table_name and the table does not exist; and no creation with a failed
\* step returns True.
C12_RollbackLeavesNothing ==
    /\ (master.raisedAt # "" /\ master.pc \in MasterEnded) => master.success = "False"
    /\ (master.pc = "m_failed" /\ master.rolled = {"delete", "drop"}) =>
        /\ master.success = "False"
        /\ ~\E k \in DOMAIN meetings : meetings[k].table_name = master.table_name
        /\ ~TableExists(master.table_name)

\* C12 (witness): a slot batch insert failed after the first batch was written
\* and both rollback calls succeeded.
C12_RolledBackAfterBatch ==
    /\ master.pc = "m_failed"
    /\ master.raisedAt = "c_batch" /\ master.i > 0
    /\ master.rolled = {"delete", "drop"}

\* C13: when a slot batch insert has failed, by the time the function returns
\* both the delete of the metadata record and the drop of the table have been
\* attempted, whether or not the first of them succeeded.
C13_BothRollbacksAttempted ==
    (master.pc = "m_failed" /\ master.raisedAt = "c_batch") =>
        master.attempted = {"delete", "drop"}

\* The step is the allocator's assignment: the update of lines 231-235.
IsAssignStep ==
    \E s \in Sessions : sess[s].pc = "p_update" /\ sess'[s].pc = "p_shown"

\* The step belongs to create_meeting_table: CREATE TABLE, a batch insert or
\* the rollback's DROP TABLE.
IsPoolCreationStep ==
    /\ master.pc \in {"c_table", "c_batch", "r_drop"}
    /\ master' # master

\* C19, a step: a slot that exists before and after a step has its assigned
\* flag and its user_id changed by the allocator's assignment step only; and
\* every step of the form submission, the form creation, the share-link pages,
\* the statistics and the export leaves all meeting tables as they were (the
\* tables change only in an assignment step or in create_meeting_table, which
\* adds whole tables and new rows and drops whole tables).
C19_FrameStep ==
    /\ ~IsAssignStep =>
        \A t \in DOMAIN tables \cap DOMAIN tables' :
            \A k \in DOMAIN tables[t] \cap DOMAIN tables'[t] :
                /\ tables'[t][k].assigned = tables[t][k].assigned
                /\ tables'[t][k].user_id = tables[t][k].user_id
    /\ tables' # tables => (IsAssignStep \/ IsPoolCreationStep)

\* C19: no action other than the allocator's assignment changes the assigned
\* flag or the user_id of an existing slot.
C19_OnlyAllocatorBindsSlots == [][C19_FrameStep]_vars

\* C19 (witness): a form submission wrote its rows and a master page other
\* than the meeting creation ran to its end while slots are assigned.
C19_OtherActionsRan ==
    /\ submitted # {}
    /\ master.pc \in {"fc_created", "st_shown", "sf_links", "s_link"}
    /\ \E t \in DOMAIN tables : \E k \in DOMAIN tables[t] : tables[t][k].assigned

\* C22: a participant run whose link names a pool that does not exist, or a
\* form that does not exist, ends at its lookup with the not-found message,
\* and that step writes no slot and no Response row.
C22_NotFoundEndsRequest ==
    [][\A s \in Sessions :
            /\ (sess[s].pc = "p_check" /\ ~TableExists(sess[s].table) /\ sess'[s] # sess[s])
                    => (sess'[s].pc = "p_notfound" /\ UNCHANGED <<tables, responses>>)
            /\ (sess[s].pc = "f_form" /\ FormInfo(sess[s].table) = <<>> /\ sess'[s] # sess[s])
                    => (sess'[s].pc = "f_notfound" /\ UNCHANGED <<tables, responses>>)]_vars

\* The answered check refuses the run of session s: "Voce ja respondeu este
\* formulario".
RefusedAsAnswered(s) == sess[s].pc = "f_answered" /\ sess'[s].pc = "f_already"

\* C24: a run is refused as having already answered the form only if a run of
\* the same session identity inserted a Response row for that form before.
C24_RefusedOnlyForOwnSubmission ==
    [][\A s \in Sessions :
            RefusedAsAnswered(s) => <<sess[s].uid, sess[s].form_id>> \in answerers]_vars

\* C25: a run is refused as having already answered the form only if the
\* responses table holds, for its participant_id, a row for every question of
\* the form.
C25_AnsweredOnlyIfEveryQuestion ==
    [][\A s \in Sessions :
            RefusedAsAnswered(s) =>
                \A q \in DOMAIN QuestionsOf(sess[s].form_id) :
                    \E k \in DOMAIN responses :
                        /\ responses[k].participant_id = sess[s].pid
                        /\ responses[k].form_id = sess[s].form_id
                        /\ responses[k].question_id = QuestionsOf(sess[s].form_id)[q].id]_vars

\* C23: when create_meeting_table has returned True the store holds the
\* metadata record, the pool table with one unassigned slot per number
\* 1..max_number and one meeting_forms link per selected form; on every path
\* on which a step raised it has returned False.
C23_TrueOnlyIfAllWritten ==
    /\ master.success = "True" =>
        /\ \E k \in DOMAIN meetings :
                /\ meetings[k].id = master.meeting_id
                /\ meetings[k].table_name = master.table_name
                /\ meetings[k].max_number = master.max_number
        /\ TableExists(master.table_name)
        /\ tables[master.table_name] = NewPool(master.max_number)
        /\ \A f \in DOMAIN master.selected_forms :
                Cardinality({k \in LinksOf(master.meeting_id) :
                                meeting_forms[k].form_id = master.selected_forms[f]}) = 1
    /\ (master.pc \in MasterEnded /\ master.raisedAt # "") => master.success = "False"

\* Witness of C23: True was returned for a pool of one full batch with a form
\* linked.
C23_CreatedWithLink ==
    /\ master.pc = "m_created" /\ master.success = "True"
    /\ master.max_number = batch_size
    /\ master.selected_forms # <<>>

\* C27: after a create_meeting_table call that failed and whose two rollback
\* calls succeeded, no meeting_forms row references the meeting of that call.
C27_RollbackLeavesNoLink ==
    (master.pc = "m_failed" /\ master.rolled = {"delete", "drop"})
        => LinksOf(master.meeting_id) = {}

\* C26: in every pool every slot has assigned = true exactly when its user_id
\* is non-null, and exactly when its assigned_at is non-null.
C26_AssignedIffBound ==
    \A t \in DOMAIN tables : \A k \in DOMAIN tables[t] :
        /\ tables[t][k].assigned <=> (tables[t][k].user_id # Null)
        /\ tables[t][k].assigned <=> (tables[t][k].assigned_at # Null)

\* Witness of C26: a pool create_meeting_table built holds a slot the
\* allocator assigned and a slot still unassigned.
C26_CreatedPoolInUse ==
    /\ TableExists(NewTable)
    /\ \E j, k \in DOMAIN tables[NewTable] :
        tables[NewTable][j].assigned /\ ~tables[NewTable][k].assigned

\* C28: when "Criar Formulario" has written a form, every multiple-choice
\* question of the catalog has at least two options.
C28_ChoiceQuestionsHaveOptions ==
    master.pc = "fc_created" =>
        \A q \in DOMAIN questions :
            questions[q].question_type = "multiple_choice"
                => Len(OptionsOf(questions[q].id)) >= 2

\* C29: whenever the options sub-form is active, current_question_index is the
\* index of the last question of the draft, which is the multiple-choice
\* question added last and still without options; "Finalizar Opcoes" never
\* ends in an IndexError.
C29_ActiveIndexIsCollectingQuestion ==
    /\ OptionsFormActive(master) =>
        /\ master.current_question_index = Len(master.draft) - 1
        /\ master.draft[Len(master.draft)].type = "multiple_choice"
        /\ master.draft[Len(master.draft)].options = <<>>
    /\ master.pc # "m_crash"

\* Witness of C29: a question before the one collecting options was deleted,
\* and the sub-form is still active with options collected.
C29_DeletedBeforeActive ==
    /\ master.success = "Pergunta deletada!"
    /\ OptionsFormActive(master)
    /\ master.current_question_index = 1
    /\ Len(master.current_options) = 2

\* The text of the option the author marked correct for question q: that of
\* the option whose id correct_answer holds (line 708), or correct_answer
\* itself while it still holds the text (line 698).
MarkedText(q) ==
    LET marked == SelectSeq(options, LAMBDA o : Str(o.id) = q.correct_answer) IN
    IF marked # <<>> THEN marked[1].option_text ELSE q.correct_answer

\* C21: in the table of "Ver Estatisticas" a response to a question with no
\* correct answer configured is graded "N/A", and a response to a
\* multiple-choice question with one is graded "Correta" exactly when the
\* option answered (the "Resposta" column) is the option marked correct, and
\* "Incorreta" otherwise.
C21_GradedAsMarked ==
    master.pc = "st_shown" =>
        \A k \in DOMAIN master.graded :
            \A q \in DOMAIN questions :
                questions[q].id = master.graded[k].Pergunta =>
                    IF questions[q].correct_answer = ""
                    THEN master.graded[k].Correta = "N/A"
                    ELSE questions[q].question_type = "multiple_choice" =>
                            master.graded[k].Correta =
                                IF master.graded[k].Resposta = MarkedText(questions[q])
                                THEN "Correta" ELSE "Incorreta"

====
